---- MODULE Spec2Model ----
(***************************************************************************)
(* Model of src/memory_manager.py: the MemoryManager shared by the agents *)
(* of the Patterson Park Patio Bar assistant.  One MemoryManager, its     *)
(* snapshot file, the threads that run extract_and_store and              *)
(* get_memory_context on it, and the wall clock.                          *)
(***************************************************************************)
EXTENDS Integers, Sequences, FiniteSets, TLC

(* ----------------------------- bounds ---------------------------------- *)
\* Largest number of entries (active + archived + in flight) the model stores.
MaxEntries == 2
\* Longest candidate list the extraction service returns.
MaxBatch == 2
\* The clock advances in steps of TickDays days, up to MaxClock days.
TickDays == 181
MaxClock == 181

(* ------------------------ program constants ---------------------------- *)
VALID_CATEGORIES ==
    << "owner_preferences", "approved_decisions", "rejected_ideas",
       "operational_notes", "event_history" >>

MAX_ENTRIES_PER_CATEGORY_IN_PROMPT == 5

\* default of prune_old_entries(max_age_days)
max_age_days == 180

CatSet == { VALID_CATEGORIES[i] : i \in DOMAIN VALID_CATEGORIES }

Threads == { "t1", "t2" }

NoThread == "none"

(* ------------------------- sequence helpers ---------------------------- *)
RECURSIVE SumSeq(_)
SumSeq(s) == IF s = << >> THEN 0 ELSE Head(s) + SumSeq(Tail(s))

RECURSIVE Flatten(_)
Flatten(ss) == IF ss = << >> THEN << >> ELSE Head(ss) \o Flatten(Tail(ss))

\* Python's s[-n:] on a list
LastN(s, n) == IF Len(s) <= n THEN s ELSE SubSeq(s, Len(s) - n + 1, Len(s))

Range(s) == { s[i] : i \in DOMAIN s }

(* --------------------------- text ---------------------------------------*)
\* A text is a sequence of one-character strings.
Whitespace == { " " }

lower(ch) ==
    CASE ch = "W" -> "w"
      [] ch = "B" -> "b"
      [] ch = "A" -> "a"
      [] OTHER -> ch

\* str.lower()
str_lower(s) == [ i \in DOMAIN s |-> lower(s[i]) ]

RECURSIVE lstrip(_, _)
lstrip(s, chars) ==
    IF s # << >> /\ Head(s) \in chars THEN lstrip(Tail(s), chars) ELSE s

RECURSIVE rstrip(_, _)
rstrip(s, chars) ==
    IF s # << >> /\ s[Len(s)] \in chars
    THEN rstrip(SubSeq(s, 1, Len(s) - 1), chars)
    ELSE s

\* str.strip()
strip(s) == rstrip(lstrip(s, Whitespace), Whitespace)

\* entry["content"].lower().strip().rstrip(".")
Normalize(s) == rstrip(strip(str_lower(s)), {"."})

\* decimal digits of n, most significant first
RECURSIVE Digits(_)
Digits(n) ==
    IF n < 10 THEN << ToString(n) >> ELSE Digits(n \div 10) \o << ToString(n % 10) >>

\* f"{n:03d}"
Fmt03(n) ==
    LET d == Digits(n) IN
    IF Len(d) >= 3 THEN d ELSE [ i \in 1..(3 - Len(d)) |-> "0" ] \o d

(* -------------------------- the Store ---------------------------------- *)
\* dict.get(key, default) on a mapping modelled as a function
Get(m, k, default) == IF k \in DOMAIN m THEN m[k] ELSE default

\* m[k] = v on a dict (adds the key when it is missing)
SetKey(m, k, v) == [ x \in (DOMAIN m) \cup {k} |-> IF x = k THEN v ELSE m[x] ]

EmptyDict == [ x \in {} |-> 0 ]

_empty_memory(now) ==
    [ version |-> 1,
      last_updated |-> now,
      categories |-> [ c \in CatSet |-> << >> ],
      archive |-> << >> ]

\* self.memory.get("categories", {})
CategoriesOf(m) == Get(m, "categories", EmptyDict)

\* categories.get(cat, [])
EntriesOf(m, cat) == Get(CategoriesOf(m), cat, << >>)

ArchiveOf(m) == Get(m, "archive", << >>)

\* all active entries, in VALID_CATEGORIES order
ActiveEntries(m) ==
    Flatten([ i \in DOMAIN VALID_CATEGORIES |-> EntriesOf(m, VALID_CATEGORIES[i]) ])

TotalActive(m) == Len(ActiveEntries(m))

TotalStored(m) == TotalActive(m) + Len(ArchiveOf(m))

(* ----------------------- the snapshot file ------------------------------ *)
\* json.dump(self.memory, f): the document lists the keys of the dict in order.
KeyOrder == << "version", "last_updated", "categories", "archive" >>

\* json.dump that leaves the archive out of the document
json_dump_no_archive(m) ==
    LET present == SelectSeq(KeyOrder, LAMBDA k : k \in DOMAIN m /\ k # "archive")
    IN  [ i \in DOMAIN present |-> << present[i], m[present[i]] >> ]

json_dump(m) ==
    LET present == SelectSeq(KeyOrder, LAMBDA k : k \in DOMAIN m)
    IN  [ i \in DOMAIN present |-> << present[i], m[present[i]] >> ]

\* json.load(f) of a document holding an object
json_load(doc) ==
    [ k \in { doc[i][1] : i \in DOMAIN doc } |->
        doc[CHOOSE i \in DOMAIN doc : doc[i][1] = k][2] ]

\* Kinds of file content:
\*   missing      no file
\*   object       a JSON document holding an object (doc lists its members)
\*   nonobject    a JSON document holding a list, a number, a string or null
\*   garbled      text that is not JSON (also an empty or truncated document)
\*   undecodable  bytes that are not UTF-8 text
NoFile == [ kind |-> "missing", doc |-> << >> ]
FileOf(m) == [ kind |-> "object", doc |-> json_dump(m) ]
TruncatedFile == [ kind |-> "garbled", doc |-> << >> ]

\* load_memory: what it returns, or that it raises
load_memory(file, now) ==
    CASE file.kind = "missing" ->
            [ raised |-> FALSE, memory |-> _empty_memory(now) ]
      [] file.kind = "garbled" ->       \* json.JSONDecodeError, caught
            [ raised |-> FALSE, memory |-> _empty_memory(now) ]
      [] file.kind = "undecodable" ->   \* UnicodeDecodeError, not caught
            [ raised |-> TRUE, memory |-> EmptyDict ]
      [] file.kind = "nonobject" ->     \* data.get: AttributeError, not caught
            [ raised |-> TRUE, memory |-> EmptyDict ]
      [] OTHER ->
            [ raised |-> FALSE, memory |-> json_load(file.doc) ]

(* ------------------------- candidates ---------------------------------- *)
\* An element of the list the extraction service returns.
\*   isdict      FALSE: the element is not an object
\*   category    "absent": the object has no category
\*   ctype       "text", "absent", "number" (non-zero) or "list"
\*   content     the text, or the elements of the list
\*   confidence  "absent": the object has no confidence
Cand(cat, ctype, content, conf) ==
    [ isdict |-> TRUE, category |-> cat, ctype |-> ctype,
      content |-> content, confidence |-> conf ]

NonObject ==
    [ isdict |-> FALSE, category |-> "absent", ctype |-> "absent",
      content |-> << >>, confidence |-> "absent" ]

Wine == << "W", "i", "n", "e" >>
wineDot == << "w", "i", "n", "e", "." >>
Beer == << "B", "e", "e", "r" >>
Ale == << "A", "l", "e" >>

ValidPool ==
    { Cand("owner_preferences", "text", Wine, "high"),
      Cand("approved_decisions", "text", wineDot, "absent"),
      Cand("owner_preferences", "text", Beer, "medium") }

InvalidPool ==
    { NonObject,
      Cand("bogus", "text", Beer, "high"),
      Cand("owner_preferences", "absent", << >>, "high"),
      Cand("owner_preferences", "text", << >>, "high"),
      Cand("owner_preferences", "text", Ale, "high"),
      Cand("event_history", "number", << >>, "high"),
      Cand("event_history", "list", << "a", "b", "c", "d" >>, "high") }

Pool == ValidPool \cup InvalidPool

\* contents that differ from their trimmed text or from their dedup key
Pad == << " ", "a", "b", " " >>
Blank == << " ", " ", " ", " " >>
wineDots == << "w", "i", "n", "e", ".", "." >>

\* candidates whose content has blanks around it or periods at its end
TextPool ==
    { Cand("owner_preferences", "text", Wine, "high"),
      Cand("approved_decisions", "text", wineDots, "low"),
      Cand("owner_preferences", "text", Pad, "absent"),
      Cand("rejected_ideas", "text", Blank, "high"),
      Cand("bogus", "text", Beer, "high") }

\* the candidate lists the service may return
Batches == UNION { [ 1..n -> Pool ] : n \in 1..MaxBatch }

TextBatches == UNION { [ 1..n -> TextPool ] : n \in 1..MaxBatch }

(* ------------------------- validation ---------------------------------- *)
\* bool(entry.get("content"))
Truthy(c) ==
    CASE c.ctype = "absent" -> FALSE
      [] c.ctype = "number" -> TRUE
      [] OTHER -> c.content # << >>

\* the test of lines 153-156: "valid", "skip", or "raise" (len() of a number)
ValidateOne(c) ==
    IF ~ c.isdict THEN "skip"
    ELSE IF c.category \notin CatSet THEN "skip"
    ELSE IF ~ Truthy(c) THEN "skip"
    ELSE IF c.ctype = "number" THEN "raise"
    ELSE IF Len(c.content) > 3 THEN "valid"
    ELSE "skip"

\* the validation loop over new_entries
RECURSIVE Validate(_)
Validate(batch) ==
    IF batch = << >> THEN [ raised |-> FALSE, entries |-> << >> ]
    ELSE LET v == ValidateOne(Head(batch)) IN
         IF v = "raise" THEN [ raised |-> TRUE, entries |-> << >> ]
         ELSE LET rest == Validate(Tail(batch)) IN
              IF rest.raised THEN rest
              ELSE [ raised |-> FALSE,
                     entries |-> (IF v = "valid" THEN << Head(batch) >> ELSE << >>)
                                  \o rest.entries ]

(* ------------------------ deduplication -------------------------------- *)
\* existing_contents if the loop of lines 258-260 went over the archive too
ExistingContentsWithArchive(m) ==
    { Normalize(e.content) : e \in Range(ActiveEntries(m)) \cup Range(ArchiveOf(m)) }

\* existing_contents, read under the lock (lines 257-260)
ExistingContents(m) ==
    { Normalize(e.content) : e \in Range(ActiveEntries(m)) }

\* the loop of lines 262-268 without the test of line 264
DedupLoopKeepAll(entries, seen) == [ raised |-> FALSE, entries |-> entries ]

\* the loop of lines 262-268 without the add of line 266
RECURSIVE DedupLoopNoAdd(_, _)
DedupLoopNoAdd(entries, seen) ==
    IF entries = << >> THEN [ raised |-> FALSE, entries |-> << >> ]
    ELSE LET e == Head(entries) IN
         IF e.ctype # "text" THEN [ raised |-> TRUE, entries |-> << >> ]
         ELSE LET dup == Normalize(e.content) \in seen
                  rest == DedupLoopNoAdd(Tail(entries), seen)
              IN  IF rest.raised THEN rest
                  ELSE [ raised |-> FALSE,
                         entries |-> (IF dup THEN << >> ELSE << e >>) \o rest.entries ]

\* the loop of lines 262-268; content.lower() raises on a list
RECURSIVE DedupLoop(_, _)
DedupLoop(entries, seen) ==
    IF entries = << >> THEN [ raised |-> FALSE, entries |-> << >> ]
    ELSE LET e == Head(entries) IN
         IF e.ctype # "text" THEN [ raised |-> TRUE, entries |-> << >> ]
         ELSE LET dup == Normalize(e.content) \in seen
                  rest == DedupLoop(Tail(entries), seen \cup { Normalize(e.content) })
              IN  IF rest.raised THEN rest
                  ELSE [ raised |-> FALSE,
                         entries |-> (IF dup THEN << >> ELSE << e >>) \o rest.entries ]

(* -------------------------- identifiers -------------------------------- *)
prefix_map(category) ==
    CASE category = "owner_preferences" -> "pref"
      [] category = "approved_decisions" -> "dec"
      [] category = "rejected_ideas" -> "rej"
      [] category = "operational_notes" -> "ops"
      [] category = "event_history" -> "evt"
      [] OTHER -> "mem"

ArchivedOf(m, category) ==
    SelectSeq(ArchiveOf(m), LAMBDA e : e.original_category = category)

\* _generate_id counting the archived entries of every category
generate_id_whole_archive(m, category) ==
    << prefix_map(category), "_" >>
        \o Fmt03(Len(EntriesOf(m, category)) + Len(ArchiveOf(m)) + 1)

\* _generate_id counting the active entries only
generate_id_active_only(m, category) ==
    << prefix_map(category), "_" >> \o Fmt03(Len(EntriesOf(m, category)) + 1)

_generate_id(m, category) ==
    << prefix_map(category), "_" >>
        \o Fmt03(Len(EntriesOf(m, category)) + Len(ArchivedOf(m, category)) + 1)

\* mem_entry with "medium" for confidence whatever the candidate carries
MemEntryAlwaysMedium(m, c, agent, now) ==
    [ id |-> _generate_id(m, c.category),
      content |-> c.content,
      source_agent |-> agent,
      created |-> now,
      confidence |-> "medium" ]

\* mem_entry with the dedup key of the content in place of the content
MemEntryNormalized(m, c, agent, now) ==
    [ id |-> _generate_id(m, c.category),
      content |-> Normalize(c.content),
      source_agent |-> agent,
      created |-> now,
      confidence |-> IF c.confidence = "absent" THEN "medium" ELSE c.confidence ]

\* mem_entry of lines 173-179
MemEntry(m, c, agent, now) ==
    [ id |-> _generate_id(m, c.category),
      content |-> c.content,
      source_agent |-> agent,
      created |-> now,
      confidence |-> IF c.confidence = "absent" THEN "medium" ELSE c.confidence ]

(* --------------------------- rendering --------------------------------- *)
\* section_map with the labels of two categories exchanged
section_map_exchanged(category) ==
    CASE category = "owner_preferences" -> "[PREFERENCES]"
      [] category = "approved_decisions" -> "[VETOED]"
      [] category = "rejected_ideas" -> "[APPROVED]"
      [] category = "operational_notes" -> "[OPS NOTES]"
      [] OTHER -> "[PAST EVENTS]"

section_map(category) ==
    CASE category = "owner_preferences" -> "[PREFERENCES]"
      [] category = "approved_decisions" -> "[APPROVED]"
      [] category = "rejected_ideas" -> "[VETOED]"
      [] category = "operational_notes" -> "[OPS NOTES]"
      [] OTHER -> "[PAST EVENTS]"

Labels == { section_map(c) : c \in CatSet }

HeaderLine == << "\n--- OWNER MEMORY (Key Insights from Past Interactions) ---" >>
FooterLine == << "--- END OWNER MEMORY ---\n" >>

\* SectionLines without the lines.append of line 119
SectionLinesNoLabel(cat, entries) ==
    LET recent == LastN(entries, MAX_ENTRIES_PER_CATEGORY_IN_PROMPT)
    IN  [ i \in DOMAIN recent |-> << "-", " " >> \o recent[i].content ]

\* the lines one category adds (lines 116-122): nothing when it is empty
SectionLines(cat, entries) ==
    IF entries = << >> THEN << >>
    ELSE LET recent == LastN(entries, MAX_ENTRIES_PER_CATEGORY_IN_PROMPT)
         IN  << << section_map(cat) >> >>
               \o [ i \in DOMAIN recent |-> << "-", " " >> \o recent[i].content ]

\* "\n".join(lines)
RECURSIVE Join(_)
Join(ls) ==
    IF ls = << >> THEN << >>
    ELSE IF Len(ls) = 1 THEN ls[1]
    ELSE ls[1] \o << "\n" >> \o Join(Tail(ls))

\* what get_memory_context returns on a Store nothing else touches meanwhile
Render(m) ==
    IF TotalActive(m) = 0 THEN << >>
    ELSE Join(<< HeaderLine >>
                \o Flatten([ i \in DOMAIN VALID_CATEGORIES |->
                      SectionLines(VALID_CATEGORIES[i], EntriesOf(m, VALID_CATEGORIES[i])) ])
                \o << FooterLine >>)

(* ---------------------------- state ------------------------------------ *)
VARIABLES
    memory,     \* self.memory
    disk,       \* the file at self.memory_path
    boot,       \* what __init__ found at memory_path and what load_memory made of it
    ctor,       \* "ready", or "raised" when __init__ raised out of load_memory
    lock,       \* the thread holding self._lock, or NoThread
    clock,      \* datetime.datetime.now(), in days
    role,       \* the calls a thread makes: "extract", "context", "any", "off"
    pc,         \* where each thread is in its call
    op,         \* the call a thread runs: "extract" or "context"
    agent,      \* source_agent of the call
    ci,         \* loop index of the running loop
    total,      \* total_entries of get_memory_context
    lines,      \* lines of get_memory_context
    ctx,        \* value returned by get_memory_context
    snap,       \* history: what get_memory_context would have returned at each
                \* instant of the running call
    reply,      \* how the extraction service answered the call
    entries,    \* new_entries / valid_entries / unique_entries
    nowv,       \* now of line 169
    cutoff,     \* cutoff of prune_old_entries
    pruned,     \* pruned_count
    saveno      \* 1 in the save of line 183, 2 in the save of line 188

vars == << memory, disk, boot, ctor, lock, clock, role, pc, op, agent, ci, total, lines, ctx,
           snap, reply, entries, nowv, cutoff, pruned, saveno >>

shared == << memory, disk, boot, ctor, lock, clock, role >>
ctxLocals == << total, lines, ctx, snap >>
pruneLocals == << cutoff, pruned >>

\* agent_name of the turn each thread serves (src/chatbot_gui.py, line 524)
AgentOf(t) == IF t = "t1" THEN "briefing" ELSE "party"

\* what the constructor can find at memory_path
DiskFiles ==
    { NoFile,
      TruncatedFile,
      [ kind |-> "undecodable", doc |-> << >> ],
      [ kind |-> "nonobject", doc |-> << >> ],
      [ kind |-> "object", doc |-> << >> ],
      [ kind |-> "object", doc |-> << << "version", 1 >>, << "archive", << >> >> >> ],
      [ kind |-> "object",
        doc |-> << << "version", 1 >>,
                   << "categories", [ c \in CatSet |-> << >> ] >> >> ],
      [ kind |-> "object",
        doc |-> << << "categories", [ c \in { "owner_preferences" } |-> << >> ] >>,
                   << "archive", << >> >> >> ] }

InitLocals ==
    /\ lock = NoThread
    /\ clock = 0
    /\ op = [ t \in Threads |-> "none" ]
    /\ agent = [ t \in Threads |-> "none" ]
    /\ ci = [ t \in Threads |-> 0 ]
    /\ total = [ t \in Threads |-> 0 ]
    /\ lines = [ t \in Threads |-> << >> ]
    /\ ctx = [ t \in Threads |-> << >> ]
    /\ snap = [ t \in Threads |-> {} ]
    /\ reply = [ t \in Threads |-> "none" ]
    /\ entries = [ t \in Threads |-> << >> ]
    /\ nowv = [ t \in Threads |-> 0 ]
    /\ cutoff = [ t \in Threads |-> 0 ]
    /\ pruned = [ t \in Threads |-> 0 ]
    /\ saveno = [ t \in Threads |-> 0 ]

\* MemoryManager.__init__ on a machine with no snapshot file; two threads
Init ==
    /\ disk = NoFile
    /\ boot = [ file |-> disk, memory |-> load_memory(disk, 0).memory ]
    /\ ctor = "ready"
    /\ memory = boot.memory
    /\ role = [ t \in Threads |-> "extract" ]
    /\ pc = [ t \in Threads |-> "idle" ]
    /\ InitLocals

\* MemoryManager.__init__ on any snapshot file; one thread
InitSeq ==
    /\ disk \in DiskFiles
    /\ boot = [ file |-> disk, memory |-> load_memory(disk, 0).memory ]
    /\ ctor = IF load_memory(disk, 0).raised THEN "raised" ELSE "ready"
    /\ memory = boot.memory
    /\ role = [ t \in Threads |-> IF t = "t1" THEN "any" ELSE "off" ]
    /\ pc = [ t \in Threads |-> "idle" ]
    /\ InitLocals

\* MemoryManager.__init__ with no snapshot file; one thread serves turns
\* (extract_and_store) while the other builds prompts (get_memory_context)
InitMix ==
    /\ disk = NoFile
    /\ boot = [ file |-> disk, memory |-> load_memory(disk, 0).memory ]
    /\ ctor = "ready"
    /\ memory = boot.memory
    /\ role = [ t \in Threads |-> IF t = "t1" THEN "extract" ELSE "context" ]
    /\ pc = [ t \in Threads |-> "idle" ]
    /\ InitLocals

\* MemoryManager.__init__ with no snapshot file; one thread at a time runs
\* extract_and_store
InitOne ==
    /\ disk = NoFile
    /\ boot = [ file |-> disk, memory |-> load_memory(disk, 0).memory ]
    /\ ctor = "ready"
    /\ memory = boot.memory
    /\ role = [ t \in Threads |-> IF t = "t1" THEN "extract" ELSE "off" ]
    /\ pc = [ t \in Threads |-> "idle" ]
    /\ InitLocals

(* --------------------------- actions ----------------------------------- *)
Upd(f, t, v) == [ f EXCEPT ![t] = v ]

\* entries the other threads hold and have not appended yet
InFlight(t) ==
    SumSeq([ i \in 1..2 |->
        LET u == IF i = 1 THEN "t1" ELSE "t2" IN
        IF u = t \/ pc[u] \in { "idle", "done", "raised" } THEN 0
        ELSE IF pc[u] = "commit" THEN Len(entries[u]) - ci[u]
        ELSE Len(entries[u]) ])

\* The Store has just become m: a get_memory_context call an agent is running
\* would return Render(m) if it read the whole Store at this instant.
Observe(s, m) ==
    [ u \in Threads |->
        IF op[u] = "context" /\ pc[u] \in { "ctx_ref", "ctx_count", "ctx_render" }
        THEN s[u] \cup { Render(m) }
        ELSE s[u] ]

\* A thread enters extract_and_store (line 133) or get_memory_context (line 91).
Call(t) ==
    /\ ctor = "ready"
    /\ pc[t] = "idle"
    /\ \E o \in { "extract", "context" } :
         /\ role[t] \in { o, "any" }
         /\ op' = Upd(op, t, o)
         /\ agent' = Upd(agent, t, IF o = "extract" THEN AgentOf(t) ELSE "none")
         /\ snap' = Upd(snap, t, IF o = "context" THEN { Render(memory) } ELSE {})
    /\ pc' = Upd(pc, t, "ctx_ref")
    /\ UNCHANGED << shared, ci, total, lines, ctx, reply, entries, nowv, pruneLocals,
                    saveno >>

\* CtxRef if get_memory_context noted the time of the read in the Store
CtxRefStamping(t) ==
    /\ pc[t] = "ctx_ref"
    /\ lock = NoThread
    /\ pc' = Upd(pc, t, IF op[t] = "extract" THEN "llm" ELSE "ctx_count")
    /\ ci' = Upd(ci, t, 0)
    /\ total' = Upd(total, t, 0)
    /\ memory' = SetKey(memory, "last_read", clock)
    /\ UNCHANGED << disk, boot, ctor, lock, clock, role, op, agent, lines, ctx, snap, reply,
                    entries, nowv, pruneLocals, saveno >>

\* CtxRef with the lock of line 97 kept over the call of the service
CtxRefHoldingLock(t) ==
    /\ pc[t] = "ctx_ref"
    /\ lock = NoThread
    /\ lock' = IF op[t] = "extract" THEN t ELSE NoThread
    /\ pc' = Upd(pc, t, IF op[t] = "extract" THEN "llm" ELSE "ctx_count")
    /\ ci' = Upd(ci, t, 0)
    /\ total' = Upd(total, t, 0)
    /\ UNCHANGED << memory, disk, boot, ctor, clock, role, op, agent, lines, ctx, snap, reply,
                    entries, nowv, pruneLocals, saveno >>

\* get_memory_context, lines 97-98: take the lock, fetch the categories dict,
\* release the lock.  The dict is the Store's own: later reads see later writes.
\* When extract_and_store makes the call (line 141) the text it builds goes
\* into the prompt and nowhere else, and the service may answer a prompt in
\* any way: the reads of lines 100-128, which change nothing, are then steps
\* that leave every variable as it is, and the thread goes on to line 144.
CtxRef(t) ==
    /\ pc[t] = "ctx_ref"
    /\ lock = NoThread
    /\ pc' = Upd(pc, t, IF op[t] = "extract" THEN "llm" ELSE "ctx_count")
    /\ ci' = Upd(ci, t, 0)
    /\ total' = Upd(total, t, 0)
    /\ UNCHANGED << shared, op, agent, lines, ctx, snap, reply, entries, nowv,
                    pruneLocals, saveno >>

\* line 100: one term of the sum; lines 101-103 and 113 after the last one
CtxCount(t) ==
    /\ pc[t] = "ctx_count"
    /\ LET cat == VALID_CATEGORIES[ci[t] + 1]
           sum == total[t] + Len(EntriesOf(memory, cat))
       IN  IF ci[t] + 1 < Len(VALID_CATEGORIES)
           THEN /\ ci' = Upd(ci, t, ci[t] + 1)
                /\ total' = Upd(total, t, sum)
                /\ UNCHANGED << pc, lines, ctx >>
           ELSE /\ ci' = Upd(ci, t, 0)
                /\ total' = Upd(total, t, 0)
                /\ IF sum = 0
                   THEN /\ ctx' = Upd(ctx, t, << >>)
                        /\ pc' = Upd(pc, t, "done")
                        /\ lines' = lines
                   ELSE /\ lines' = Upd(lines, t, << HeaderLine >>)
                        /\ pc' = Upd(pc, t, "ctx_render")
                        /\ ctx' = ctx
    /\ UNCHANGED << shared, op, agent, snap, reply, entries, nowv, pruneLocals, saveno >>

\* lines 115-122: one category of the loop; lines 124-128 after the last one
CtxRender(t) ==
    /\ pc[t] = "ctx_render"
    /\ LET cat == VALID_CATEGORIES[ci[t] + 1]
           ls == lines[t] \o SectionLines(cat, EntriesOf(memory, cat))
       IN  IF ci[t] + 1 < Len(VALID_CATEGORIES)
           THEN /\ ci' = Upd(ci, t, ci[t] + 1)
                /\ lines' = Upd(lines, t, ls)
                /\ UNCHANGED << pc, ctx >>
           ELSE /\ ci' = Upd(ci, t, 0)
                /\ lines' = Upd(lines, t, << >>)
                /\ ctx' = Upd(ctx, t, Join(ls \o << FooterLine >>))
                /\ pc' = Upd(pc, t, "done")
    /\ UNCHANGED << shared, op, agent, total, snap, reply, entries, nowv, pruneLocals,
                    saveno >>

\* How the extraction service can answer (lines 221-248):
\*   raise, timeout   generate_content raises
\*   nonjson          the text is not JSON
\*   nonlist          the text is JSON but not a list
\*   list             the text is a JSON list
FailedReplies == { "raise", "timeout", "nonjson", "nonlist" }

\* _call_extraction_llm with the except clauses of lines 242-248 left out
call_llm_uncaught(kind, batch) ==
    [ raised |-> kind \in { "raise", "timeout", "nonjson" },
      entries |-> IF kind = "list" THEN batch ELSE << >> ]

\* what _call_extraction_llm returns: every failure is caught and gives []
_call_extraction_llm(kind, batch) ==
    [ raised |-> FALSE, entries |-> IF kind = "list" THEN batch ELSE << >> ]

\* the levels of the records the except clauses of lines 242-248 pass to
\* self.log, in order, for a reply of the kind
failure_log(kind) ==
    CASE kind = "nonjson" -> << "warn", "warn" >>
      [] kind \in { "raise", "timeout" } -> << "err" >>
      [] OTHER -> << >>

\* the replies the service can give: a kind and, for a list, its elements
Replies ==
    { << kind, << >> >> : kind \in FailedReplies } \cup
    { << "list", batch >> : batch \in Batches \cup { << >> } }

\* the service answers with a list of candidates of TextPool
TextReplies == { << "list", batch >> : batch \in TextBatches }

\* lines 144-159: the call, the early return and the validation loop, the
\* reply being one of replies
CallLLMOf(t, replies) ==
    /\ pc[t] = "llm"
    /\ \E r \in replies :
         LET call == _call_extraction_llm(r[1], r[2])
             new_entries == call.entries
             v == Validate(new_entries)
         IN  /\ TotalStored(memory) + InFlight(t) + Len(new_entries) <= MaxEntries
             /\ reply' = Upd(reply, t, r[1])
             /\ IF call.raised
                THEN /\ pc' = Upd(pc, t, "raised")
                     /\ entries' = entries
                ELSE IF new_entries = << >>
                THEN /\ pc' = Upd(pc, t, "done")
                     /\ entries' = entries
                ELSE IF v.raised
                THEN /\ pc' = Upd(pc, t, "raised")
                     /\ entries' = entries
                ELSE /\ pc' = Upd(pc, t, "dedup")
                     /\ entries' = Upd(entries, t, v.entries)
    /\ UNCHANGED << shared, op, agent, ci, ctxLocals, nowv, pruneLocals, saveno >>

CallLLM(t) == CallLLMOf(t, Replies)

CallLLMText(t) == CallLLMOf(t, TextReplies)

\* _deduplicate (lines 253-270) and lines 164-166: existing_contents is read
\* under the lock, which is released before the candidates are filtered.
Deduplicate(t) ==
    /\ pc[t] = "dedup"
    /\ lock = NoThread
    /\ IF "categories" \notin DOMAIN memory
       THEN /\ pc' = Upd(pc, t, "raised")          \* KeyError
            /\ entries' = Upd(entries, t, << >>)
       ELSE LET r == DedupLoop(entries[t], ExistingContents(memory)) IN
            IF r.raised
            THEN /\ pc' = Upd(pc, t, "raised")     \* AttributeError
                 /\ entries' = Upd(entries, t, << >>)
            ELSE IF r.entries = << >>
            THEN /\ entries' = entries                \* valid_entries, till the return
                 /\ pc' = Upd(pc, t, "done")
            ELSE /\ entries' = Upd(entries, t, r.entries)
                 /\ pc' = Upd(pc, t, "now")
    /\ UNCHANGED << shared, op, agent, ci, ctxLocals, reply, nowv, pruneLocals,
                    saveno >>

\* line 169
ReadNow(t) ==
    /\ pc[t] = "now"
    /\ nowv' = Upd(nowv, t, clock)
    /\ pc' = Upd(pc, t, "commit_lock")
    /\ UNCHANGED << shared, op, agent, ci, ctxLocals, reply, entries, pruneLocals,
                    saveno >>

\* line 170 if the with statement did not wait for the lock
CommitLockBarging(t) ==
    /\ pc[t] = "commit_lock"
    /\ lock' = t
    /\ ci' = Upd(ci, t, 0)
    /\ pc' = Upd(pc, t, "commit")
    /\ UNCHANGED << memory, disk, boot, ctor, clock, role, op, agent, ctxLocals, reply, entries,
                    nowv, pruneLocals, saveno >>

\* line 170
CommitLock(t) ==
    /\ pc[t] = "commit_lock"
    /\ lock = NoThread
    /\ lock' = t
    /\ ci' = Upd(ci, t, 0)
    /\ pc' = Upd(pc, t, "commit")
    /\ UNCHANGED << memory, disk, boot, ctor, clock, role, op, agent, ctxLocals, reply, entries,
                    nowv, pruneLocals, saveno >>

\* self.memory["categories"][cat].append(mem_entry)
AppendEntry(m, cat, e) ==
    SetKey(m, "categories", SetKey(m.categories, cat, Append(m.categories[cat], e)))

\* lines 171-181: one entry of the loop.  A category the Store lacks raises
\* KeyError, which releases the lock on its way out.
CommitOne(t) ==
    /\ pc[t] = "commit"
    /\ lock = t
    /\ ci[t] < Len(entries[t])
    /\ LET c == entries[t][ci[t] + 1] IN
       IF c.category \in DOMAIN memory.categories
       THEN /\ memory' = AppendEntry(memory, c.category,
                                     MemEntry(memory, c, agent[t], nowv[t]))
            /\ ci' = Upd(ci, t, ci[t] + 1)
            /\ snap' = Observe(snap, memory')
            /\ UNCHANGED << lock, pc, entries >>
       ELSE /\ lock' = NoThread
            /\ pc' = Upd(pc, t, "raised")
            /\ entries' = Upd(entries, t, << >>)
            /\ ci' = Upd(ci, t, 0)
            /\ UNCHANGED << memory, snap >>
    /\ UNCHANGED << disk, boot, ctor, clock, role, op, agent, total, lines, ctx, reply, nowv,
                    pruneLocals, saveno >>

\* end of the with block of line 170; line 183 comes next
CommitUnlock(t) ==
    /\ pc[t] = "commit"
    /\ lock = t
    /\ ci[t] = Len(entries[t])
    /\ lock' = NoThread
    /\ entries' = Upd(entries, t, << >>)
    /\ ci' = Upd(ci, t, 0)
    /\ saveno' = Upd(saveno, t, 1)
    /\ pc' = Upd(pc, t, "save_lock")
    /\ UNCHANGED << memory, disk, boot, ctor, clock, role, op, agent, ctxLocals, reply, nowv,
                    pruneLocals >>

\* save_memory entering its block without waiting for the lock
SaveLockBarging(t) ==
    /\ pc[t] = "save_lock"
    /\ lock' = t
    /\ pc' = Upd(pc, t, "save_open")
    /\ UNCHANGED << memory, disk, boot, ctor, clock, role, op, agent, ci, ctxLocals, reply,
                    entries, nowv, pruneLocals, saveno >>

\* save_memory, line 71
SaveLock(t) ==
    /\ pc[t] = "save_lock"
    /\ lock = NoThread
    /\ lock' = t
    /\ pc' = Upd(pc, t, "save_open")
    /\ UNCHANGED << memory, disk, boot, ctor, clock, role, op, agent, ci, ctxLocals, reply,
                    entries, nowv, pruneLocals, saveno >>

\* save_memory with its OSError caught and logged instead of raised
save_error_swallowed(n) == IF n = 1 THEN "prune_cutoff" ELSE "done"

\* Where an OSError of save_memory number n takes extract_and_store: nothing
\* catches it at lines 183 and 188.
save_error(n) == "raised"

\* what open(self.memory_path, "w") leaves of the file before anything is written
open_w(file) == TruncatedFile

\* SaveOpen if an OSError left the with block of line 71 without releasing
\* the lock
SaveOpenKeepingLock(t) ==
    /\ pc[t] = "save_open"
    /\ lock = t
    /\ memory' = SetKey(memory, "last_updated", clock)
    /\ \/ /\ disk' = open_w(disk)
          /\ pc' = Upd(pc, t, "save_dump")
          /\ UNCHANGED << lock, saveno >>
       \/ /\ disk' = disk
          /\ lock' = lock
          /\ pc' = Upd(pc, t, save_error(saveno[t]))
          /\ saveno' = saveno
    /\ UNCHANGED << boot, ctor, clock, role, op, agent, ci, ctxLocals, reply, entries, nowv,
                    pruneLocals >>

\* lines 72-74: stamp last_updated, then mkdir and open(..., "w"), which
\* truncates the file; either of the two may raise OSError.
SaveOpen(t) ==
    /\ pc[t] = "save_open"
    /\ lock = t
    /\ memory' = SetKey(memory, "last_updated", clock)
    /\ \/ /\ disk' = open_w(disk)
          /\ pc' = Upd(pc, t, "save_dump")
          /\ UNCHANGED << lock, saveno >>
       \/ /\ disk' = disk
          /\ lock' = NoThread
          /\ pc' = Upd(pc, t, save_error(saveno[t]))
          /\ saveno' = saveno
    /\ UNCHANGED << boot, ctor, clock, role, op, agent, ci, ctxLocals, reply, entries, nowv,
                    pruneLocals >>

\* save_memory returning without having written the file
SaveDumpNothing(t) ==
    /\ pc[t] = "save_dump"
    /\ lock = t
    /\ lock' = NoThread
    /\ pc' = Upd(pc, t, IF saveno[t] = 1 THEN "prune_cutoff" ELSE "done")
    /\ saveno' = Upd(saveno, t, 0)
    /\ UNCHANGED << memory, disk, boot, ctor, clock, role, op, agent, ci, ctxLocals, reply,
                    entries, nowv, pruneLocals >>

\* lines 75-77: json.dump writes the document and the file is closed, or the
\* write raises OSError part-way and leaves a truncated document.
SaveDump(t) ==
    /\ pc[t] = "save_dump"
    /\ lock = t
    /\ lock' = NoThread
    /\ \/ /\ disk' = FileOf(memory)
          /\ pc' = Upd(pc, t, IF saveno[t] = 1 THEN "prune_cutoff" ELSE "done")
          /\ saveno' = Upd(saveno, t, 0)
       \/ /\ disk' = TruncatedFile
          /\ pc' = Upd(pc, t, save_error(saveno[t]))
          /\ saveno' = saveno
    /\ UNCHANGED << memory, boot, ctor, clock, role, op, agent, ci, ctxLocals, reply, entries,
                    nowv, pruneLocals >>

\* prune_old_entries, line 294
PruneCutoff(t) ==
    /\ pc[t] = "prune_cutoff"
    /\ cutoff' = Upd(cutoff, t, clock - max_age_days)
    /\ pruned' = Upd(pruned, t, 0)
    /\ pc' = Upd(pc, t, "prune_lock")
    /\ UNCHANGED << shared, op, agent, ci, ctxLocals, reply, entries, nowv, saveno >>

\* line 297 if the with statement did not wait for the lock
PruneLockBarging(t) ==
    /\ pc[t] = "prune_lock"
    /\ lock' = t
    /\ ci' = Upd(ci, t, 0)
    /\ pc' = Upd(pc, t, "prune_cat")
    /\ UNCHANGED << memory, disk, boot, ctor, clock, role, op, agent, ctxLocals, reply, entries,
                    nowv, pruneLocals, saveno >>

\* line 297
PruneLock(t) ==
    /\ pc[t] = "prune_lock"
    /\ lock = NoThread
    /\ lock' = t
    /\ ci' = Upd(ci, t, 0)
    /\ pc' = Upd(pc, t, "prune_cat")
    /\ UNCHANGED << memory, disk, boot, ctor, clock, role, op, agent, ctxLocals, reply, entries,
                    nowv, pruneLocals, saveno >>

\* entry.get("created", "") < cutoff
IsOld(e, cut) == e.created < cut

\* archived without the tag of line 304
ArchivedUntagged(e, cat, now) ==
    [ id |-> e.id, content |-> e.content, source_agent |-> e.source_agent,
      created |-> e.created, confidence |-> e.confidence,
      original_category |-> "none", archived_on |-> now ]

\* archived with its created field set to the time of the prune
ArchivedRestamped(e, cat, now) ==
    [ id |-> e.id, content |-> e.content, source_agent |-> e.source_agent,
      created |-> now, confidence |-> e.confidence,
      original_category |-> cat, archived_on |-> now ]

\* archived of lines 303-305
Archived(e, cat, now) ==
    [ id |-> e.id, content |-> e.content, source_agent |-> e.source_agent,
      created |-> e.created, confidence |-> e.confidence,
      original_category |-> cat, archived_on |-> now ]

\* lines 299-311 without the append of line 306: old entries are dropped
PruneCategoryDrop(m, cat, cut, now) ==
    LET keep == SelectSeq(EntriesOf(m, cat), LAMBDA e : ~ (e.created < cut))
    IN  SetKey(m, "categories", SetKey(m.categories, cat, keep))

\* lines 299-311 with line 311 left out: the old entries are archived and
\* stay active too
PruneCategoryCopy(m, cat, cut, now) ==
    LET es == EntriesOf(m, cat)
        old == SelectSeq(es, LAMBDA e : IsOld(e, cut))
        moved == [ i \in DOMAIN old |-> Archived(old[i], cat, now) ]
    IN  IF old = << >> THEN m ELSE SetKey(m, "archive", m.archive \o moved)

\* lines 299-311 for one category: the Store after it
PruneCategory(m, cat, cut, now) ==
    LET es == EntriesOf(m, cat)
        old == SelectSeq(es, LAMBDA e : IsOld(e, cut))
        keep == SelectSeq(es, LAMBDA e : ~ IsOld(e, cut))
        moved == [ i \in DOMAIN old |-> Archived(old[i], cat, now) ]
        m1 == IF old = << >> THEN m ELSE SetKey(m, "archive", m.archive \o moved)
    IN  SetKey(m1, "categories", SetKey(m1.categories, cat, keep))

\* the loop of lines 298-311 from category number i on: the Store after it
RECURSIVE PruneFrom(_, _, _, _)
PruneFrom(m, i, cut, now) ==
    IF i > Len(VALID_CATEGORIES) THEN m
    ELSE PruneFrom(PruneCategory(m, VALID_CATEGORIES[i], cut, now), i + 1, cut, now)

\* pruned_count of a prune_old_entries run on Store m
PrunedCount(m, cut) ==
    Cardinality({ << c, i >> \in CatSet \X (1..TotalStored(m)) :
                    i <= Len(EntriesOf(m, c)) /\ IsOld(EntriesOf(m, c)[i], cut) })

\* the iterations of the loop of line 298 that are still to come and find an
\* old entry; the others leave the Store as it is
OldCats(m, from, cut) ==
    { i \in (from + 1)..Len(VALID_CATEGORIES) :
        \E e \in Range(EntriesOf(m, VALID_CATEGORIES[i])) : IsOld(e, cut) }

Min(S) == CHOOSE x \in S : \A y \in S : x <= y

\* lines 298-311: the next iteration of the loop that finds an old entry.  A
\* Store without "archive" raises KeyError there.
PruneCat(t) ==
    /\ pc[t] = "prune_cat"
    /\ lock = t
    /\ OldCats(memory, ci[t], cutoff[t]) # {}
    /\ LET j == Min(OldCats(memory, ci[t], cutoff[t]))
           cat == VALID_CATEGORIES[j]
           old == SelectSeq(EntriesOf(memory, cat), LAMBDA e : IsOld(e, cutoff[t]))
       IN  IF "archive" \notin DOMAIN memory
           THEN /\ lock' = NoThread
                /\ pc' = Upd(pc, t, "raised")
                /\ ci' = Upd(ci, t, 0)
                /\ pruned' = Upd(pruned, t, 0)
                /\ UNCHANGED << memory, snap >>
           ELSE /\ memory' = PruneCategory(memory, cat, cutoff[t], clock)
                /\ pruned' = Upd(pruned, t, pruned[t] + Len(old))
                /\ ci' = Upd(ci, t, j)
                /\ snap' = Observe(snap, memory')
                /\ UNCHANGED << lock, pc >>
    /\ UNCHANGED << disk, boot, ctor, clock, role, op, agent, total, lines, ctx, reply, entries,
                    nowv, cutoff, saveno >>

\* the end of the prune with lines 187-188 left out: no second save
PruneUnlockNeverSave(t) ==
    /\ pc[t] = "prune_cat"
    /\ lock = t
    /\ OldCats(memory, ci[t], cutoff[t]) = {}
    /\ lock' = NoThread
    /\ ci' = Upd(ci, t, 0)
    /\ pruned' = Upd(pruned, t, 0)
    /\ cutoff' = Upd(cutoff, t, 0)
    /\ pc' = Upd(pc, t, "done")
    /\ saveno' = saveno
    /\ UNCHANGED << memory, disk, boot, ctor, clock, role, op, agent, ctxLocals, reply, entries,
                    nowv >>

\* the end of the prune with line 187 left out: the Store is saved again
\* whatever the prune returned
PruneUnlockAlwaysSave(t) ==
    /\ pc[t] = "prune_cat"
    /\ lock = t
    /\ OldCats(memory, ci[t], cutoff[t]) = {}
    /\ lock' = NoThread
    /\ ci' = Upd(ci, t, 0)
    /\ pruned' = Upd(pruned, t, 0)
    /\ cutoff' = Upd(cutoff, t, 0)
    /\ pc' = Upd(pc, t, "save_lock")
    /\ saveno' = Upd(saveno, t, 2)
    /\ UNCHANGED << memory, disk, boot, ctor, clock, role, op, agent, ctxLocals, reply, entries,
                    nowv >>

\* end of the with block of line 297, lines 313-316 and 186-188
PruneUnlock(t) ==
    /\ pc[t] = "prune_cat"
    /\ lock = t
    /\ OldCats(memory, ci[t], cutoff[t]) = {}
    /\ lock' = NoThread
    /\ ci' = Upd(ci, t, 0)
    /\ pruned' = Upd(pruned, t, 0)
    /\ cutoff' = Upd(cutoff, t, 0)
    /\ IF pruned[t] > 0
       THEN /\ pc' = Upd(pc, t, "save_lock")
            /\ saveno' = Upd(saveno, t, 2)
       ELSE /\ pc' = Upd(pc, t, "done")
            /\ saveno' = saveno
    /\ UNCHANGED << memory, disk, boot, ctor, clock, role, op, agent, ctxLocals, reply, entries,
                    nowv >>

\* The call has returned ("done") or raised ("raised"); the thread ends and a
\* later turn starts a new one (src/chatbot_gui.py, lines 521-526).
Finish(t) ==
    /\ pc[t] \in { "done", "raised" }
    /\ pc' = Upd(pc, t, "idle")
    /\ op' = Upd(op, t, "none")
    /\ agent' = Upd(agent, t, "none")
    /\ ctx' = Upd(ctx, t, << >>)
    /\ snap' = Upd(snap, t, {})
    /\ reply' = Upd(reply, t, "none")
    /\ entries' = Upd(entries, t, << >>)
    /\ nowv' = Upd(nowv, t, 0)
    /\ saveno' = Upd(saveno, t, 0)
    /\ UNCHANGED << shared, ci, total, lines, pruneLocals >>

\* time passes
Tick ==
    /\ clock + TickDays <= MaxClock
    /\ clock' = clock + TickDays
    /\ UNCHANGED << memory, disk, boot, ctor, lock, role, pc, op, agent, ci, ctxLocals, reply,
                    entries, nowv, pruneLocals, saveno >>

\* the steps of extract_and_store
NextExtract ==
    \/ \E t \in Threads : Call(t)
    \/ \E t \in Threads : CtxRef(t)
    \/ \E t \in Threads : CallLLM(t)
    \/ \E t \in Threads : Deduplicate(t)
    \/ \E t \in Threads : ReadNow(t)
    \/ \E t \in Threads : CommitLock(t)
    \/ \E t \in Threads : CommitOne(t)
    \/ \E t \in Threads : CommitUnlock(t)
    \/ \E t \in Threads : SaveLock(t)
    \/ \E t \in Threads : SaveOpen(t)
    \/ \E t \in Threads : SaveDump(t)
    \/ \E t \in Threads : PruneCutoff(t)
    \/ \E t \in Threads : PruneLock(t)
    \/ \E t \in Threads : PruneCat(t)
    \/ \E t \in Threads : PruneUnlock(t)
    \/ \E t \in Threads : Finish(t)
    \/ Tick

\* and those of a get_memory_context call an agent makes
Next ==
    \/ NextExtract
    \/ \E t \in Threads : CtxCount(t)
    \/ \E t \in Threads : CtxRender(t)

\* two threads in extract_and_store on a Store created empty
Spec == Init /\ [][NextExtract]_vars

\* one thread on a Store loaded from any snapshot file
SpecSeq == InitSeq /\ [][Next]_vars

\* one thread in extract_and_store while another is in get_memory_context
SpecMix == InitMix /\ [][Next]_vars

\* the steps of extract_and_store a thread takes by itself: all but the start
\* of the call, which is the caller's choice, and the return of the service,
\* on which generate_content waits with no time limit (lines 222-228)
Local(t) ==
    \/ CtxRef(t) \/ Deduplicate(t) \/ ReadNow(t)
    \/ CommitLock(t) \/ CommitOne(t) \/ CommitUnlock(t)
    \/ SaveLock(t) \/ SaveOpen(t) \/ SaveDump(t)
    \/ PruneCutoff(t) \/ PruneLock(t) \/ PruneCat(t) \/ PruneUnlock(t)
    \/ Finish(t)

\* the steps of extract_and_store within one day: no entry grows old, so the
\* loop of prune_old_entries finds nothing to move
NextToday ==
    \/ \E t \in Threads : Call(t)
    \/ \E t \in Threads : CtxRef(t)
    \/ \E t \in Threads : CallLLM(t)
    \/ \E t \in Threads : Deduplicate(t)
    \/ \E t \in Threads : ReadNow(t)
    \/ \E t \in Threads : CommitLock(t)
    \/ \E t \in Threads : CommitOne(t)
    \/ \E t \in Threads : CommitUnlock(t)
    \/ \E t \in Threads : SaveLock(t)
    \/ \E t \in Threads : SaveOpen(t)
    \/ \E t \in Threads : SaveDump(t)
    \/ \E t \in Threads : PruneCutoff(t)
    \/ \E t \in Threads : PruneLock(t)
    \/ \E t \in Threads : PruneUnlock(t)
    \/ \E t \in Threads : Finish(t)

\* two threads in extract_and_store that the scheduler keeps running: a thread
\* that can take a step of its own does not wait for ever
SpecLive == Init /\ [][NextToday]_vars /\ \A t \in Threads : WF_vars(Local(t))

\* MemoryManager.__init__ with no snapshot file; one thread runs
\* extract_and_store, the other extract_and_store or get_memory_context
InitDuo ==
    /\ disk = NoFile
    /\ boot = [ file |-> disk, memory |-> load_memory(disk, 0).memory ]
    /\ ctor = "ready"
    /\ memory = boot.memory
    /\ role = [ t \in Threads |-> IF t = "t1" THEN "extract" ELSE "any" ]
    /\ pc = [ t \in Threads |-> "idle" ]
    /\ InitLocals

\* the steps of extract_and_store and of get_memory_context within one day
NextDuo ==
    \/ NextToday
    \/ \E t \in Threads : CtxCount(t)
    \/ \E t \in Threads : CtxRender(t)

\* the steps at which a thread waits for self._lock (lines 71, 97, 170, 256
\* and 297)
Acquire(t) ==
    \/ CtxRef(t) \/ Deduplicate(t) \/ CommitLock(t) \/ SaveLock(t) \/ PruneLock(t)

\* threads the scheduler keeps running, and a lock that a waiting thread
\* gets in the end when it is free again and again
SpecFair ==
    /\ InitDuo
    /\ [][NextDuo]_vars
    /\ \A t \in Threads :
         /\ WF_vars(Local(t) \/ CtxCount(t) \/ CtxRender(t))
         /\ SF_vars(Acquire(t))

\* lines 72-74 when neither mkdir nor open raises
SaveOpenOk(t) == SaveOpen(t) /\ pc'[t] # "raised"

\* lines 75-77 when the write does not raise
SaveDumpOk(t) == SaveDump(t) /\ pc'[t] # "raised"

\* the steps of extract_and_store on a file system that never fails
NextSaved ==
    \/ \E t \in Threads : Call(t)
    \/ \E t \in Threads : CtxRef(t)
    \/ \E t \in Threads : CallLLM(t)
    \/ \E t \in Threads : Deduplicate(t)
    \/ \E t \in Threads : ReadNow(t)
    \/ \E t \in Threads : CommitLock(t)
    \/ \E t \in Threads : CommitOne(t)
    \/ \E t \in Threads : CommitUnlock(t)
    \/ \E t \in Threads : SaveLock(t)
    \/ \E t \in Threads : SaveOpenOk(t)
    \/ \E t \in Threads : SaveDumpOk(t)
    \/ \E t \in Threads : PruneCutoff(t)
    \/ \E t \in Threads : PruneLock(t)
    \/ \E t \in Threads : PruneCat(t)
    \/ \E t \in Threads : PruneUnlock(t)
    \/ \E t \in Threads : Finish(t)
    \/ Tick

\* two threads in extract_and_store, no save of which fails
SpecSaved == Init /\ [][NextSaved]_vars

\* extract_and_store called again and again, one call at a time: each call
\* is made, is answered by the service and runs to its end
SpecBusy ==
    /\ InitOne
    /\ [][NextExtract]_vars
    /\ \A t \in Threads : WF_vars(Call(t)) /\ WF_vars(CallLLM(t)) /\ WF_vars(Local(t))

\* the steps of extract_and_store when the service answers from TextReplies
NextText ==
    \/ \E t \in Threads : Call(t)
    \/ \E t \in Threads : CtxRef(t)
    \/ \E t \in Threads : CallLLMText(t)
    \/ \E t \in Threads : Deduplicate(t)
    \/ \E t \in Threads : ReadNow(t)
    \/ \E t \in Threads : CommitLock(t)
    \/ \E t \in Threads : CommitOne(t)
    \/ \E t \in Threads : CommitUnlock(t)
    \/ \E t \in Threads : SaveLock(t)
    \/ \E t \in Threads : SaveOpen(t)
    \/ \E t \in Threads : SaveDump(t)
    \/ \E t \in Threads : PruneCutoff(t)
    \/ \E t \in Threads : PruneLock(t)
    \/ \E t \in Threads : PruneCat(t)
    \/ \E t \in Threads : PruneUnlock(t)
    \/ \E t \in Threads : Finish(t)
    \/ Tick

\* extract_and_store, one call at a time, on candidates of TextPool
SpecText == InitOne /\ [][NextText]_vars

(* --------------------------- properties -------------------------------- *)
\* every entry of the Store, active or archived, by category, id, content and
\* creation time
StoredKeys(m) ==
    UNION { { << c, e.id, e.content, e.created >> : e \in Range(EntriesOf(m, c)) } :
              c \in CatSet } \cup
    { << e.original_category, e.id, e.content, e.created >> :
        e \in Range(ArchiveOf(m)) }

\* the ids a category has given out: those of its active and archived entries
IdsOf(m, cat) ==
    [ i \in DOMAIN EntriesOf(m, cat) |-> EntriesOf(m, cat)[i].id ]
        \o [ i \in DOMAIN ArchivedOf(m, cat) |-> ArchivedOf(m, cat)[i].id ]

NoRepeat(s) == \A i, j \in DOMAIN s : i # j => s[i] # s[j]

\* C1: in every reachable state, also with concurrent extract_and_store
\* calls, no two active entries of the same or of different categories have
\* equal normalized content.
C1_NoDuplicateActive ==
    NoRepeat([ i \in DOMAIN ActiveEntries(memory) |->
                 Normalize(ActiveEntries(memory)[i].content) ])

\* C2: in every reachable state, also with concurrent extract_and_store
\* calls, the active entries of each category are in ascending order of
\* created.
C2_SortedByCreated ==
    \A c \in CatSet :
        \A i, j \in DOMAIN EntriesOf(memory, c) :
            i < j => EntriesOf(memory, c)[i].created <= EntriesOf(memory, c)[j].created

\* C3: whatever the commits and prunes and their interleaving, from an empty
\* Store, no two entries of a category, active and archived taken together,
\* share an id; so the id of an archived entry is never given out again.
C3_UniqueIds == \A c \in CatSet : NoRepeat(IdsOf(memory, c))

\* C3 witness: a category holds an archived entry and an active entry that
\* was created no earlier than the other was archived.
C3_Witness ==
    \E c \in CatSet :
        \E a \in Range(ArchivedOf(memory, c)), e \in Range(EntriesOf(memory, c)) :
            e.created >= a.archived_on /\ e.created > a.created

\* C4: when the extraction call raises, times out or returns a payload that
\* is not JSON or not a list, extract_and_store returns normally at once and
\* the Store and the snapshot file are as they were: no commit, save or prune.
C4_FailedCallChangesNothing ==
    [][ \A t \in Threads :
          (pc[t] = "llm" /\ pc'[t] # "llm" /\ reply'[t] \in FailedReplies)
              => (pc'[t] = "done" /\ memory' = memory /\ disk' = disk) ]_vars

\* C4 witness: a call has returned after the service timed out, on a Store
\* that holds entries.
C4_Witness ==
    \E t \in Threads :
        pc[t] = "done" /\ reply[t] = "timeout" /\ TotalActive(memory) > 0

\* C5: whatever the elements of the list the service returns, no step of
\* the validation and deduplication of extract_and_store raises (each invalid
\* candidate is dropped by itself and its valid siblings go on to the commit).
C5_CandidatesNeverRaise ==
    [][ \A t \in Threads :
          (pc[t] \in { "llm", "dedup" } /\ reply'[t] = "list")
              => pc'[t] # "raised" ]_vars

SavePositions == { "save_lock", "save_open", "save_dump" }

\* C6: when the save of line 183 fails after a commit, the failure leaves
\* extract_and_store as an exception and the Store in memory keeps every
\* entry it held, the entries just committed among them; no later step
\* removes an entry from the Store in memory, and every save that completes
\* writes the whole Store in memory to the file.
C6_FailedSaveKeepsEntries ==
    [][ /\ \A t \in Threads :
             ( /\ pc[t] \in SavePositions /\ saveno[t] = 1
               /\ pc'[t] \notin SavePositions
               /\ disk' # FileOf(memory') )
                 => ( /\ pc'[t] = "raised"
                      /\ CategoriesOf(memory') = CategoriesOf(memory)
                      /\ ArchiveOf(memory') = ArchiveOf(memory) )
        /\ StoredKeys(memory) \subseteq StoredKeys(memory')
        /\ \A t \in Threads :
             (pc[t] = "save_dump" /\ pc'[t] \notin { "save_dump", "raised" })
                 => ( /\ disk' = FileOf(memory')
                      /\ StoredKeys(load_memory(disk', clock).memory)
                            = StoredKeys(memory') ) ]_vars

\* C6 witness: the save of line 183 of one call has failed, the call has
\* raised, and a later save of another call has put the whole Store, that
\* call's entries included, into the file.
C6_Witness ==
    \E t \in Threads :
        /\ pc[t] = "raised" /\ saveno[t] = 1
        /\ disk = FileOf(memory)
        /\ \E k \in StoredKeys(memory) :
             \E e \in Range(EntriesOf(memory, k[1])) :
                 e.id = k[2] /\ e.source_agent = AgentOf(t)

\* C7: the snapshot file holds a complete Store at every instant once it has
\* held one, also while a save runs and when a save fails part-way, and
\* load_memory on the file never finds fewer entries than it would have found
\* before.
C7_SaveIsAtomic ==
    [][ disk.kind = "object"
          => ( /\ disk'.kind = "object"
               /\ StoredKeys(load_memory(disk, clock).memory)
                     \subseteq StoredKeys(load_memory(disk', clock).memory) ) ]_vars

\* files that are not a JSON document, or are not there
NotJson == { "garbled", "undecodable" }

\* C8: on a missing snapshot file, and on one that is not valid JSON,
\* load_memory does not raise and returns the fresh empty Store, with nothing
\* of the file in it.
C8_LoadRecoversFromBadFile ==
    boot.file.kind \in NotJson \cup { "missing" }
        => (ctor = "ready" /\ boot.memory = _empty_memory(0))

\* the Store has the five category sequences and an archive
HasSchema(m) ==
    /\ { "categories", "archive" } \subseteq DOMAIN m
    /\ CatSet \subseteq DOMAIN m.categories

\* C9: on a snapshot file that is JSON without the Store schema, load_memory
\* returns the fresh empty Store, so the Store in memory always has the five
\* category sequences and an archive, and no later get_memory_context or
\* extract_and_store call fails on it.
C9_LoadedStoreHasSchema ==
    boot.file.kind \in { "object", "nonobject" }
        => /\ ctor = "ready"
           /\ HasSchema(memory)
           /\ ~ HasSchema(json_load(boot.file.doc)) => boot.memory = _empty_memory(0)

HasSection(text) == \E i \in DOMAIN text : text[i] \in Labels

\* C10: get_memory_context returns the empty string exactly when the Store
\* has no active entry, whatever the archive holds; otherwise it returns a
\* text with at least one labelled section.
C10_EmptyContextIffNoActive ==
    \A t \in Threads :
        (pc[t] = "done" /\ op[t] = "context")
            => /\ (ctx[t] = << >>) <=> (TotalActive(memory) = 0)
               /\ ctx[t] # << >> => HasSection(ctx[t])

\* C10 witness: get_memory_context has returned the empty string on a Store
\* whose only entries are archived.
C10_Witness ==
    \E t \in Threads :
        /\ pc[t] = "done" /\ op[t] = "context"
        /\ ctx[t] = << >>
        /\ Len(ArchiveOf(memory)) > 0

\* the entries of es at the positions in I, in the order of es
Sel(es, I) ==
    LET F[k \in 0..Len(es)] ==
            IF k = 0 THEN << >>
            ELSE IF k \in I THEN Append(F[k - 1], es[k]) ELSE F[k - 1]
    IN  F[Len(es)]

\* the smaller of two numbers
Least(a, b) == IF a <= b THEN a ELSE b

\* C11: for every reachable Store and every category holding n active
\* entries, the section get_memory_context builds for the category lists
\* min(n, 5) entries; they are the most recently created ones of the category
\* and they come oldest first.
C11_SectionShowsNewestInOrder ==
    \A c \in CatSet :
        LET es == EntriesOf(memory, c)
            n == Len(es)
            sec == SectionLines(c, es)
        IN  IF n = 0 THEN sec = << >>
            ELSE /\ Len(sec) = 1 + Least(n, MAX_ENTRIES_PER_CATEGORY_IN_PROMPT)
                 /\ \E I \in SUBSET (1..n) :
                      LET shown == Sel(es, I) IN
                      /\ Cardinality(I) = Least(n, MAX_ENTRIES_PER_CATEGORY_IN_PROMPT)
                      /\ Tail(sec) = [ k \in DOMAIN shown |->
                                         << "-", " " >> \o shown[k].content ]
                      /\ \A i \in I, j \in (1..n) \ I : es[i].created >= es[j].created
                      /\ \A k \in 1..(Len(shown) - 1) :
                            shown[k].created <= shown[k + 1].created

\* C12: the text a get_memory_context call returns is what the whole Store
\* rendered to at one single instant between the call and the return,
\* whatever commits and prunes other threads made meanwhile (so it never
\* joins categories read at different times and never is a header with no
\* section under it).
C12_ContextIsOneSnapshot ==
    \A t \in Threads :
        (pc[t] = "done" /\ op[t] = "context") => ctx[t] \in snap[t]

\* where a call is between its read of the Store for the prompt and the end
\* of its commit, the service call apart
Pending == { "ctx_ref", "dedup", "now", "commit_lock", "commit" }

\* C13: a thread waiting on the extraction service never holds the lock; so
\* for as long as one thread stays in that wait, another thread's read of the
\* Store for its prompt and another thread's commit come to their end.
C13_LockFreeDuringCall ==
    /\ [](\A t \in Threads : pc[t] = "llm" => lock # t)
    /\ \A t, u \in Threads :
          t # u => ( (pc[t] = "llm" /\ pc[u] \in Pending)
                       ~> (pc[u] \notin Pending \/ pc[t] # "llm") )

\* C13 witness: one thread waits on the service while the other holds the
\* lock in the middle of its commit.
C13_Witness ==
    \E t, u \in Threads :
        pc[t] = "llm" /\ pc[u] = "commit" /\ lock = u /\ ci[u] > 0

\* entry e as the archive holds it once it has left category c
Tagged(e, c, a) ==
    /\ a.id = e.id /\ a.content = e.content /\ a.source_agent = e.source_agent
    /\ a.created = e.created /\ a.confidence = e.confidence
    /\ a.original_category = c
    /\ "archived_on" \in DOMAIN a

\* C14: prune_old_entries moves to the archive exactly the active entries
\* created before its cutoff (now - max_age_days), each with the category it
\* leaves as original_category and with archived_on; the other active
\* entries stay where they are, in the order they had, and no other thread
\* changes the Store meanwhile; and the count it returns is the number of
\* entries it moved.
C14_PruneMovesExactlyOld ==
    [][ \A t \in Threads :
          /\ (pc[t] = "prune_cat" /\ pc'[t] = "prune_cat" /\ ci'[t] = ci[t])
                => memory' = memory
          /\ (pc[t] = "prune_cat" /\ pc'[t] = "prune_cat" /\ ci'[t] # ci[t])
                => \E c \in CatSet :
                     LET es == EntriesOf(memory, c)
                         I == { i \in DOMAIN es : es[i].created < cutoff[t] }
                         gone == Sel(es, I)
                         old == ArchiveOf(memory)
                         new == ArchiveOf(memory')
                     IN  /\ I # {}
                         /\ EntriesOf(memory', c) = Sel(es, (DOMAIN es) \ I)
                         /\ \A d \in CatSet \ { c } :
                               EntriesOf(memory', d) = EntriesOf(memory, d)
                         /\ Len(new) = Len(old) + Len(gone)
                         /\ SubSeq(new, 1, Len(old)) = old
                         /\ \A k \in DOMAIN gone :
                               /\ Tagged(gone[k], c, new[Len(old) + k])
                               /\ new[Len(old) + k].archived_on = clock
                         /\ pruned'[t] = pruned[t] + Len(gone)
          /\ (pc[t] = "prune_lock" /\ pc'[t] = "prune_cat") => pruned'[t] = 0
          /\ (pc[t] = "prune_cat" /\ pc'[t] \notin { "prune_cat", "raised" })
                => /\ \A c \in CatSet : \A e \in Range(EntriesOf(memory, c)) :
                         ~ (e.created < cutoff[t])
                   /\ memory' = memory
                   /\ (pc'[t] = "save_lock") <=> (pruned[t] > 0) ]_vars

\* C14 witness: a prune has moved an entry of a category to the archive and
\* has left a younger entry of the same category in place.
C14_Witness ==
    \E t \in Threads : \E c \in CatSet :
        /\ pc[t] = "prune_cat" /\ pruned[t] > 0
        /\ \E a \in Range(ArchivedOf(memory, c)) :
             a.archived_on = clock /\ a.created < cutoff[t]
        /\ \E e \in Range(EntriesOf(memory, c)) : e.created >= cutoff[t]

\* an active entry is older than the age threshold
OldActive ==
    \E c \in CatSet : \E e \in Range(EntriesOf(memory, c)) :
        e.created < clock - max_age_days

\* C15: while extract_and_store keeps being called and no call ends in an
\* exception, whatever the calls extract, an active entry that has grown
\* older than the age threshold is in the end moved to the archive.
C15_OldEntryLeavesActive ==
    (OldActive ~> ~ OldActive) \/ <>(\E t \in Threads : pc[t] = "raised")

\* every candidate the call still holds normalizes to the content of an entry
\* that is active in Store m
AllKnown(t, m) ==
    \A i \in DOMAIN entries[t] :
        /\ entries[t][i].ctype = "text"
        /\ Normalize(entries[t][i].content) \in ExistingContents(m)

\* C16: when no candidate of an extract_and_store call is left after the
\* validation and the deduplication (none was valid, or each normalizes to
\* the content of an active entry), the call returns at once: it adds no
\* entry, leaves the Store in memory and the snapshot file as they are and
\* makes no save; so does every repetition of the call.
C16_NoSurvivorChangesNothing ==
    [][ \A t \in Threads :
          /\ (pc[t] = "llm" /\ pc'[t] = "dedup")
                => (memory' = memory /\ disk' = disk)
          /\ (pc[t] = "dedup" /\ pc'[t] # "dedup" /\ AllKnown(t, memory))
                => (pc'[t] = "done" /\ memory' = memory /\ disk' = disk) ]_vars

\* C16 witness: a call whose candidates all matched active entries has
\* returned, on a Store that holds those entries and was never saved.
C16_Witness ==
    \E t \in Threads :
        /\ pc[t] = "done" /\ reply[t] = "list"
        /\ entries[t] # << >> /\ AllKnown(t, memory)
        /\ disk = NoFile

\* C17 as the spec words it: a save followed by a load gives the Store as it
\* was before the save, last_updated included; so the save leaves the Store
\* in memory as it is and the file it writes loads as that Store.
C17_SaveLoadGivesStoreBefore ==
    [][ \A t \in Threads :
          /\ (pc[t] = "save_open" /\ pc'[t] = "save_dump") => memory' = memory
          /\ (pc[t] = "save_dump" /\ pc'[t] \notin { "save_dump", "raised" })
                => /\ ~ load_memory(disk', clock').raised
                   /\ load_memory(disk', clock').memory = memory ]_vars

\* C17: a save followed by a load gives the Store as it is in memory after
\* the save: the Store as it was before the save in everything but
\* last_updated (same version, same entries of each category in the same
\* order, same archive), with the time of the save as last_updated.
C17_SaveLoadGivesStoreAfter ==
    [][ \A t \in Threads :
          /\ (pc[t] = "save_open" /\ pc'[t] = "save_dump")
                => memory' = SetKey(memory, "last_updated", clock)
          /\ (pc[t] = "save_dump" /\ pc'[t] \notin { "save_dump", "raised" })
                => /\ memory' = memory
                   /\ ~ load_memory(disk', clock').raised
                   /\ load_memory(disk', clock').memory = memory' ]_vars

\* C17 witness: a save has completed on a Store that holds an active and an
\* archived entry and was last stamped at another time than it was created.
C17_Witness ==
    /\ boot.file = NoFile
    /\ disk = FileOf(memory)
    /\ load_memory(disk, clock).memory = memory
    /\ TotalActive(memory) > 0 /\ Len(ArchiveOf(memory)) > 0
    /\ memory.last_updated # boot.memory.last_updated

\* the ids of the entries the archive holds of category c
ArchivedIds(m, c) == { a.id : a \in Range(ArchivedOf(m, c)) }

\* C18: whatever the extract_and_store, prune_old_entries and save_memory
\* calls on one MemoryManager and their interleaving, no step loses an entry
\* of the Store in memory: the archive only grows at its end, an archived
\* entry is in no active category afterwards, and every entry the Store
\* holds is active or archived in the next state too.
C18_NoEntryLost ==
    [][ /\ Len(ArchiveOf(memory)) <= Len(ArchiveOf(memory'))
        /\ SubSeq(ArchiveOf(memory'), 1, Len(ArchiveOf(memory))) = ArchiveOf(memory)
        /\ \A c \in CatSet :
              \A e \in Range(EntriesOf(memory', c)) : e.id \notin ArchivedIds(memory, c)
        /\ StoredKeys(memory) \subseteq StoredKeys(memory') ]_vars

\* C18 witness: a prune has archived an entry while another entry is active,
\* and the save that follows the prune is under way.
C18_Witness ==
    \E t \in Threads :
        /\ pc[t] \in SavePositions /\ saveno[t] = 2
        /\ Len(ArchiveOf(memory)) > 0 /\ TotalActive(memory) > 0

\* C19: the snapshot a save_memory call writes, when the call completes, is
\* the Store in memory as it is at one instant at which no commit and no
\* prune is part-way; so it holds all or none of the entries of each
\* extract_and_store call and no entry that is active and archived at once,
\* whatever other threads are doing.
C19_SnapshotIsOneInstant ==
    [][ \A t \in Threads :
          (pc[t] = "save_dump" /\ pc'[t] \notin { "save_dump", "raised" })
            => LET snapshot == load_memory(disk', clock).memory IN
               /\ snapshot = memory
               /\ \A u \in Threads : pc[u] \notin { "commit", "prune_cat" }
               /\ \A c \in CatSet :
                     \A e \in Range(EntriesOf(snapshot, c)) :
                         e.id \notin ArchivedIds(snapshot, c) ]_vars

\* C19 witness: a save has just written the Store while the other thread
\* waits for the lock with a batch to commit.
C19_Witness ==
    \E t, u \in Threads :
        /\ pc[t] = "prune_cutoff" /\ disk = FileOf(memory)
        /\ TotalActive(memory) > 0
        /\ pc[u] = "commit_lock" /\ entries[u] # << >>

\* C20 as the spec words it: the Store in memory is the Store of the last
\* load or save that succeeded, which is what the snapshot file holds.
\* Stated where it asks least: in the states in which no call is under way.
C20_MemoryMatchesFile ==
    (ctor = "ready" /\ \A t \in Threads : pc[t] = "idle")
        => IF disk = NoFile THEN memory = boot.memory
           ELSE disk = FileOf(memory)

\* C20: the snapshot file never holds an entry that the Store in memory
\* lacks, and every save that completes leaves the file holding exactly the
\* Store in memory; from a commit or a prune to the next save that
\* completes, and so after a save that failed, the Store in memory is ahead
\* of the file.
C20_FileNeverAheadOfMemory ==
    [][ /\ StoredKeys(load_memory(disk', clock').memory) \subseteq StoredKeys(memory')
        /\ \A t \in Threads :
              (pc[t] = "save_dump" /\ pc'[t] \notin { "save_dump", "raised" })
                => load_memory(disk', clock').memory = memory' ]_vars

\* C20 witness: no call is under way, the file holds the snapshot of an
\* earlier save, and the Store in memory holds an entry more, committed by a
\* call whose save failed.
C20_Witness ==
    /\ \A t \in Threads : pc[t] = "idle"
    /\ disk.kind = "object"
    /\ StoredKeys(load_memory(disk, clock).memory) # {}
    /\ StoredKeys(load_memory(disk, clock).memory) \subseteq StoredKeys(memory)
    /\ StoredKeys(load_memory(disk, clock).memory) # StoredKeys(memory)

\* the lines of a text: its pieces between the "\n" separators
RECURSIVE SplitLines(_, _)
SplitLines(text, cur) ==
    IF text = << >> THEN << cur >>
    ELSE IF Head(text) = "\n" THEN << cur >> \o SplitLines(Tail(text), << >>)
    ELSE SplitLines(Tail(text), Append(cur, Head(text)))

\* text has the line "- <content>" below the line of the label, with no
\* other label between the two
UnderLabel(text, label, content) ==
    LET ls == SplitLines(text, << >>) IN
    \E i, j \in DOMAIN ls :
        /\ i < j
        /\ ls[i] = << label >>
        /\ ls[j] = << "-", " " >> \o content
        /\ \A k \in (i + 1)..(j - 1) : ls[k] \notin { << l >> : l \in Labels }

\* C21: an entry that extract_and_store commits holds the content of its
\* candidate as it came, neither normalized nor trimmed, and the source_agent
\* of the call; and while the entry is among the 5 latest of its category,
\* the text of get_memory_context has the line "- <content>" under the label
\* of the category.
C21_ContentStoredAndShownAsGiven ==
    [][ \A t \in Threads :
          /\ (pc[t] = "commit" /\ ci'[t] = ci[t] + 1)
                => LET c == entries[t][ci[t] + 1]
                       es == EntriesOf(memory', c.category)
                   IN  /\ Len(es) = Len(EntriesOf(memory, c.category)) + 1
                       /\ es[Len(es)].content = c.content
                       /\ es[Len(es)].source_agent = agent[t]
                       /\ agent[t] = AgentOf(t)
          /\ (pc[t] = "done" /\ op[t] = "context")
                => \A c \in CatSet :
                     LET es == EntriesOf(memory, c) IN
                     \A k \in DOMAIN es :
                        k > Len(es) - MAX_ENTRIES_PER_CATEGORY_IN_PROMPT
                          => UnderLabel(ctx[t], section_map(c), es[k].content) ]_vars

\* C21 witness: get_memory_context has returned a text with the line
\* "- wine." under [APPROVED], for an entry committed from a candidate whose
\* content differs from its dedup key.
C21_Witness ==
    \E t \in Threads :
        /\ pc[t] = "done" /\ op[t] = "context"
        /\ UnderLabel(ctx[t], "[APPROVED]", wineDot)
        /\ \E e \in Range(EntriesOf(memory, "approved_decisions")) :
             e.content = wineDot /\ e.source_agent = AgentOf(t)

\* C22: no entry of the Store, active or archived, has a category outside
\* the five tags, or a content that is empty or at most 3 characters long
\* once the blanks at its ends are trimmed; and the Store never has a
\* category other than the five.
C22_StoredEntriesAreValid ==
    "categories" \in DOMAIN memory =>
        /\ DOMAIN CategoriesOf(memory) \subseteq CatSet
        /\ \A c \in DOMAIN CategoriesOf(memory) :
             \A e \in Range(EntriesOf(memory, c)) : Len(strip(e.content)) > 3
        /\ \A a \in Range(ArchiveOf(memory)) :
             /\ a.original_category \in CatSet
             /\ Len(strip(a.content)) > 3

\* the key as the claim words it: lowercase, trim the blanks at both ends,
\* then drop one period at the end if there is one
KeyOnePeriod(s) ==
    LET x == strip(str_lower(s)) IN
    IF x # << >> /\ x[Len(x)] = "." THEN SubSeq(x, 1, Len(x) - 1) ELSE x

\* the candidates of cands that are no duplicates by that key, keys being the
\* keys of the active entries and of the earlier survivors
RECURSIVE SurvivorsByKey(_, _)
SurvivorsByKey(cands, keys) ==
    IF cands = << >> THEN << >>
    ELSE LET k == KeyOnePeriod(Head(cands).content) IN
         IF k \in keys THEN SurvivorsByKey(Tail(cands), keys)
         ELSE << Head(cands) >> \o SurvivorsByKey(Tail(cands), keys \cup { k })

\* C23: the dedup key of a content is its lowercase text, trimmed, with one
\* period at its end removed; _deduplicate drops a candidate exactly when its
\* key is the key of an active entry or of an earlier candidate of the batch
\* that it kept.
C23_DedupByOnePeriodKey ==
    [][ \A t \in Threads :
          (pc[t] = "dedup" /\ pc'[t] \in { "now", "done" })
            => LET kept == IF pc'[t] = "now" THEN entries'[t] ELSE << >>
                   keys == { KeyOnePeriod(e.content) : e \in Range(ActiveEntries(memory)) }
               IN  kept = SurvivorsByKey(entries[t], keys) ]_vars

\* the candidates of cs whose normalized content is k
WithKey(cs, k) == { i \in DOMAIN cs : Normalize(cs[i].content) = k }

\* C24: when several valid candidates of one call have the same normalized
\* content, in one category or in different ones, the call inserts the first
\* of them in list order at most, and none of the later ones: the candidates
\* it keeps are in list order, no two with the same normalized content, each
\* the first of the list with its content; and it commits the ones it kept.
C24_FirstOfEqualCandidatesOnly ==
    [][ \A t \in Threads :
          /\ (pc[t] = "dedup" /\ pc'[t] = "now")
                => LET valid == entries[t]
                       kept == entries'[t]
                   IN  \E I \in SUBSET DOMAIN valid :
                         /\ kept = Sel(valid, I)
                         /\ \A i \in I :
                              \A j \in DOMAIN valid :
                                 Normalize(valid[j].content) = Normalize(valid[i].content)
                                    => i <= j
          /\ (pc[t] = "commit" /\ ci'[t] = ci[t] + 1)
                => /\ TotalStored(memory') = TotalStored(memory) + 1
                   /\ WithKey(entries[t], Normalize(entries[t][ci'[t]].content))
                         = { ci'[t] }
          /\ (pc[t] \notin { "commit", "prune_cat" })
                => (pc'[t] = pc[t] \/ TotalStored(memory') = TotalStored(memory)) ]_vars

\* C24 witness: a call whose two valid candidates, of different categories,
\* have the same normalized content is at its deduplication, which keeps the
\* first of the two alone.
C24_Witness ==
    \E t \in Threads :
        /\ pc[t] = "dedup"
        /\ Len(entries[t]) = 2
        /\ entries[t][1].category # entries[t][2].category
        /\ Normalize(entries[t][1].content) = Normalize(entries[t][2].content)
        /\ ENABLED (Deduplicate(t) /\ pc'[t] = "now" /\ entries'[t] = << entries[t][1] >>)

\* the id prefixes as the claim lists them
TagPrefix ==
    [ owner_preferences |-> "pref", approved_decisions |-> "dec",
      rejected_ideas |-> "rej", operational_notes |-> "ops",
      event_history |-> "evt" ]

\* the id with prefix p and sequence number n, of three digits for n < 1000
IdWith(p, n) ==
    << p, "_" >> \o (IF n < 10 THEN << "0", "0" >> ELSE IF n < 100 THEN << "0" >> ELSE << >>)
                 \o Digits(n)

\* C25: the id of an entry is <prefix>_<sequence>, the prefix being pref, dec,
\* rej, ops or evt by category and the sequence, padded with zeros to three
\* digits, the number of active entries of the category plus the number of
\* archived entries with that original_category plus 1 when the entry is
\* appended; so the sequence is the ordinal of the insertion in the category
\* (the ids a category has given out are those of 1..k, k the number of
\* entries inserted in it), and a prune changes no id.
C25_IdIsInsertionOrdinal ==
    [][ /\ \A t \in Threads :
            (pc[t] = "commit" /\ ci'[t] = ci[t] + 1)
              => LET cat == entries[t][ci'[t]].category
                     es == EntriesOf(memory', cat)
                     n == Len(EntriesOf(memory, cat)) + Len(ArchivedOf(memory, cat)) + 1
                 IN  /\ es[Len(es)].id = IdWith(TagPrefix[cat], n)
                     /\ Len(es[Len(es)].id) >= 2 + 3
                     /\ Range(IdsOf(memory', cat))
                           = { IdWith(TagPrefix[cat], i) : i \in 1..n }
        /\ \A c \in CatSet :
            /\ Range(IdsOf(memory, c))
                  = { IdWith(TagPrefix[c], i) : i \in 1..Len(IdsOf(memory, c)) }
            /\ (\E t \in Threads : pc[t] = "prune_cat")
                  => Range(IdsOf(memory', c)) = Range(IdsOf(memory, c)) ]_vars

\* C25 witness: the second entry inserted in a category has the sequence 002
\* although the first one has been archived and the category was empty when
\* the second was appended.
C25_Witness ==
    \E c \in CatSet :
        /\ Len(EntriesOf(memory, c)) = 1
        /\ EntriesOf(memory, c)[1].id = IdWith(TagPrefix[c], 2)
        /\ ArchivedIds(memory, c) = { IdWith(TagPrefix[c], 1) }

\* the sequence numbers of the ids of category c in Store m, active and
\* archived
SeqNos(m, c) ==
    { n \in 1..(Len(IdsOf(m, c)) + 1) : IdWith(TagPrefix[c], n) \in Range(IdsOf(m, c)) }

\* C26: the commits of concurrent extract_and_store calls do not interleave:
\* from the moment a call has taken the lock for its commit until it gives it
\* back, the Store changes only by the appends of that call, each at the end
\* of its category (so the entries of one call are contiguous there); and the
\* sequence number of each appended id is greater than every one the
\* category has given out, so the numbers grow in the order of the commits.
C26_CommitsDoNotInterleave ==
    [][ \A t \in Threads :
          (pc[t] = "commit" /\ memory' # memory)
            => /\ ci'[t] = ci[t] + 1
               /\ \A u \in Threads \ { t } : pc[u] # "commit" /\ pc'[u] = pc[u]
               /\ LET cat == entries[t][ci'[t]].category
                       es == EntriesOf(memory', cat)
                   IN  /\ SubSeq(es, 1, Len(es) - 1) = EntriesOf(memory, cat)
                       /\ \A c \in CatSet \ { cat } :
                            EntriesOf(memory', c) = EntriesOf(memory, c)
                       /\ ArchiveOf(memory') = ArchiveOf(memory)
                       /\ \E n \in 1..(Len(IdsOf(memory', cat)) + 1) :
                            /\ es[Len(es)].id = IdWith(TagPrefix[cat], n)
                            /\ \A k \in SeqNos(memory, cat) : k < n ]_vars

\* C26 witness: a call is in its commit and has appended its entry after the
\* entry that a call of the other agent committed to the same category.
C26_Witness ==
    \E t \in Threads : \E c \in CatSet :
        LET es == EntriesOf(memory, c) IN
        /\ pc[t] = "commit" /\ ci[t] = 1 /\ lock = t
        /\ Len(es) = 2
        /\ es[2].source_agent = agent[t]
        /\ es[1].source_agent # agent[t]
        /\ es[1].id = IdWith(TagPrefix[c], 1) /\ es[2].id = IdWith(TagPrefix[c], 2)

\* the order of the steps of a call from its commit on; saveRaises tells
\* whether a save may end the call with an exception
StepsInOrder(t, saveRaises) ==
    LET failed == IF saveRaises THEN { "raised" } ELSE {} IN
    /\ (pc[t] = "commit" /\ pc'[t] # "commit")
          => (ci[t] >= 1 /\ pc'[t] = "save_lock" /\ saveno'[t] = 1)
    /\ (pc[t] = "save_lock" /\ pc'[t] # "save_lock") => pc'[t] = "save_open"
    /\ (pc[t] = "save_open" /\ pc'[t] # "save_open")
          => pc'[t] \in { "save_dump" } \cup failed
    /\ (pc[t] = "save_dump" /\ pc'[t] # "save_dump")
          => \/ pc'[t] \in failed
             \/ /\ disk' = FileOf(memory)
                /\ pc'[t] = (IF saveno[t] = 1 THEN "prune_cutoff" ELSE "done")
    /\ (pc[t] = "prune_cutoff" /\ pc'[t] # "prune_cutoff") => pc'[t] = "prune_lock"
    /\ (pc[t] = "prune_lock" /\ pc'[t] # "prune_lock") => pc'[t] = "prune_cat"
    /\ (pc[t] = "prune_cat" /\ pc'[t] # "prune_cat")
          => /\ pc'[t] = (IF pruned[t] > 0 THEN "save_lock" ELSE "done")
             /\ pruned[t] > 0 => saveno'[t] = 2
    /\ (pc'[t] = "save_lock" /\ pc[t] # "save_lock") => pc[t] \in { "commit", "prune_cat" }
    /\ (pc'[t] = "prune_cutoff" /\ pc[t] # "prune_cutoff") => pc[t] = "save_dump"
    /\ (pc[t] \in { "llm", "dedup" } /\ pc'[t] \in { "done", "raised" })
          => (memory' = memory /\ disk' = disk)

\* C27 as the claim words it: every extract_and_store call that commits an
\* entry then makes, in this order, a save, a prune, and a second save if
\* and only if the prune moved an entry; a call that commits nothing makes
\* no save and no prune.
C27_SavePruneSaveAlways ==
    [][ \A t \in Threads : StepsInOrder(t, FALSE) ]_vars

\* C27: every extract_and_store call that commits an entry then starts a
\* save; unless that save raises OSError, which ends the call at once, the
\* call goes on to a prune, and then to a second save if and only if the
\* prune moved an entry; a call that commits nothing makes no save and no
\* prune.
C27_SavePruneSaveUnlessSaveRaises ==
    [][ \A t \in Threads : StepsInOrder(t, TRUE) ]_vars

\* C27 witness: a call that committed an entry has saved, has pruned an
\* entry away and is writing the file a second time.
C27_Witness ==
    \E t \in Threads :
        /\ pc[t] = "save_dump" /\ saveno[t] = 2
        /\ Len(ArchiveOf(memory)) > 0
        /\ disk # NoFile

\* C28: pruning is idempotent and archives an entry once: when a
\* prune_old_entries run ends, a second run right after it (same cutoff)
\* would return 0 and leave the Store as it is; and in every reachable state,
\* also with prunes of concurrent threads, no id of a category is twice in
\* the archive or in the active sequence and in the archive at once.
C28_PruneIsIdempotent ==
    [][ /\ \A t \in Threads :
            (pc[t] = "prune_cat" /\ pc'[t] # "prune_cat")
              => /\ PrunedCount(memory', cutoff[t]) = 0
                 /\ PruneFrom(memory', 1, cutoff[t], clock') = memory'
                 /\ memory' = memory
        /\ \A c \in CatSet :
            LET arch == ArchivedOf(memory', c) IN
            /\ \A i, j \in DOMAIN arch : i # j => arch[i].id # arch[j].id
            /\ \A e \in Range(EntriesOf(memory', c)) : e.id \notin ArchivedIds(memory', c)
      ]_vars

\* C28 witness: a prune has archived an entry and is about to end while the
\* prune of the other thread, with the same cutoff, waits for the lock.
C28_Witness ==
    \E t, u \in Threads :
        /\ t # u
        /\ pc[t] = "prune_cat" /\ pruned[t] > 0
        /\ OldCats(memory, ci[t], cutoff[t]) = {}
        /\ pc[u] = "prune_lock" /\ cutoff[u] = cutoff[t]
        /\ Len(ArchiveOf(memory)) > 0

\* the five fields an entry gets at its commit
Committed(e) ==
    [ id |-> e.id, content |-> e.content, source_agent |-> e.source_agent,
      created |-> e.created, confidence |-> e.confidence ]

EntryFields == { "id", "content", "source_agent", "created", "confidence" }

\* C29: id, content, source_agent, created and confidence of an entry never
\* change once it is committed: every step leaves each active entry, with
\* its five fields as they are, active at its place or archived, a commit
\* leaves every entry there was untouched, and an archived entry is the
\* active entry it was plus original_category and archived_on and nothing
\* else, and stays as it is from then on.
C29_EntryFieldsNeverChange ==
    [][ /\ \A c \in CatSet :
            LET es == EntriesOf(memory, c)
                es2 == EntriesOf(memory', c)
                new == SubSeq(ArchiveOf(memory'), Len(ArchiveOf(memory)) + 1,
                              Len(ArchiveOf(memory')))
            IN  /\ \A i \in DOMAIN es :
                     /\ DOMAIN es[i] = EntryFields
                     /\ \/ es[i] \in Range(es2)
                        \/ \E a \in Range(new) :
                             /\ DOMAIN a = EntryFields \cup { "original_category", "archived_on" }
                             /\ Committed(a) = es[i]
                             /\ a.original_category = c
                             /\ a.archived_on = clock
                /\ (\E t \in Threads : pc[t] = "commit")
                     => SubSeq(es2, 1, Len(es)) = es
        /\ SubSeq(ArchiveOf(memory'), 1, Len(ArchiveOf(memory))) = ArchiveOf(memory)
        /\ \A a \in Range(ArchiveOf(memory')) \ Range(ArchiveOf(memory)) :
             \E e \in Range(EntriesOf(memory, a.original_category)) : Committed(a) = e
      ]_vars

\* C29 witness: the archive holds an entry with the fields of its commit and
\* the two of its archival, and an entry committed later is active.
C29_Witness ==
    \E a \in Range(ArchiveOf(memory)) : \E e \in Range(ActiveEntries(memory)) :
        /\ DOMAIN a = EntryFields \cup { "original_category", "archived_on" }
        /\ a.created < a.archived_on
        /\ a.source_agent \in { AgentOf(t) : t \in Threads }
        /\ e.created >= a.archived_on

\* C30: a valid candidate that has no confidence field is stored with the
\* confidence "medium", and one that has the field is stored with the value
\* the field has.
C30_ConfidenceDefaultsToMedium ==
    [][ \A t \in Threads :
          (pc[t] = "commit" /\ ci'[t] = ci[t] + 1)
            => LET c == entries[t][ci'[t]]
                   es == EntriesOf(memory', c.category)
               IN  /\ c.confidence = "absent" => es[Len(es)].confidence = "medium"
                   /\ c.confidence # "absent" => es[Len(es)].confidence = c.confidence
      ]_vars

\* C30 witness: the Store holds the entry of a candidate that had no
\* confidence, with "medium", and the entry of a candidate that had "low",
\* with "low".
C30_Witness ==
    /\ \E e \in Range(ActiveEntries(memory)) : e.content = Pad /\ e.confidence = "medium"
    /\ \E e \in Range(ActiveEntries(memory)) : e.content = wineDots /\ e.confidence = "low"

\* C31: whatever confidence values the extraction service returns, every
\* entry of the Store, active or archived, has the confidence "high" or
\* "medium".
C31_ConfidenceIsHighOrMedium ==
    /\ \A e \in Range(ActiveEntries(memory)) : e.confidence \in { "high", "medium" }
    /\ \A a \in Range(ArchiveOf(memory)) : a.confidence \in { "high", "medium" }

\* the categories in the order of the claim, each with its label as the
\* text shows it
SectionOrder ==
    << << "owner_preferences", "[PREFERENCES]" >>,
       << "approved_decisions", "[APPROVED]" >>,
       << "rejected_ideas", "[VETOED]" >>,
       << "operational_notes", "[OPS NOTES]" >>,
       << "event_history", "[PAST EVENTS]" >> >>

\* the label lines of a text, in the order they come
LabelLines(text) ==
    LET ls == SplitLines(text, << >>)
        labs == SelectSeq(ls, LAMBDA l : \E i \in DOMAIN SectionOrder :
                                            l = << SectionOrder[i][2] >>)
    IN  [ i \in DOMAIN labs |-> labs[i][1] ]

\* C32: the text of get_memory_context has its sections in the order
\* owner_preferences, approved_decisions, rejected_ideas, operational_notes,
\* event_history, under the labels PREFERENCES, APPROVED, VETOED, OPS NOTES
\* and PAST EVENTS, and has the label of a category exactly when the
\* category has an active entry.
C32_SectionsInFixedOrder ==
    \A t \in Threads :
        (pc[t] = "done" /\ op[t] = "context")
          => LET nonEmpty == SelectSeq(SectionOrder,
                                LAMBDA p : EntriesOf(memory, p[1]) # << >>)
             IN  LabelLines(ctx[t]) = [ i \in DOMAIN nonEmpty |-> nonEmpty[i][2] ]

\* C32 witness: get_memory_context has returned a text with the sections
\* PREFERENCES and APPROVED, in this order, and no other, on a Store with
\* active entries in these two categories only.
C32_Witness ==
    \E t \in Threads :
        /\ pc[t] = "done" /\ op[t] = "context"
        /\ LabelLines(ctx[t]) = << "[PREFERENCES]", "[APPROVED]" >>
        /\ EntriesOf(memory, "rejected_ideas") = << >>
        /\ EntriesOf(memory, "owner_preferences") # << >>

\* thread t takes a step of the call it is in, or enters a call
StepOf(t) ==
    \/ pc'[t] # pc[t]
    \/ ci'[t] # ci[t]
    \/ total'[t] # total[t]
    \/ lines'[t] # lines[t]

\* C33: no step of a get_memory_context call, from its entry to its return,
\* changes the Store in memory or the snapshot file; and the Store gets an
\* entry it did not hold only by a step of the commit loop of an
\* extract_and_store call, one entry a step.
C33_ContextReadsOnly ==
    [][ /\ \A t \in Threads :
            (StepOf(t) /\ (op[t] = "context" \/ op'[t] = "context"))
              => (memory' = memory /\ disk' = disk)
        /\ ~ (StoredKeys(memory') \subseteq StoredKeys(memory))
              => \E t \in Threads :
                   /\ op[t] = "extract" /\ pc[t] = "commit" /\ ci'[t] = ci[t] + 1
                   /\ Cardinality(StoredKeys(memory') \ StoredKeys(memory)) = 1
      ]_vars

\* C33 witness: a get_memory_context call has returned a text with entries
\* that a commit has put in the Store and no save has written yet: there is
\* still no snapshot file.
C33_Witness ==
    \E t \in Threads :
        /\ pc[t] = "done" /\ op[t] = "context"
        /\ ctx[t] # << >>
        /\ TotalActive(memory) > 0
        /\ disk = NoFile

\* where a thread is inside the with block of a commit (lines 170-181), of a
\* prune (lines 297-311) or of a save (lines 71-77)
InsideBlock == { "commit", "prune_cat", "save_open", "save_dump" }

\* C34: every step that changes the Store in memory (an append of a commit,
\* a move of a prune, the last_updated stamp of a save) and every write of
\* the snapshot file is a step of the thread that holds the lock, taken
\* inside its commit, prune or save; and at no time are two threads inside a
\* commit, a prune or a save.
C34_ChangesOnlyUnderLock ==
    [][ /\ (memory' # memory \/ disk' # disk)
              => \E t \in Threads :
                   /\ lock = t
                   /\ pc[t] \in InsideBlock
                   /\ StepOf(t) \/ (pc[t] = "save_open" /\ pc'[t] = "save_dump")
                   /\ \A u \in Threads \ { t } : ~ StepOf(u)
        /\ \A t \in Threads : pc[t] \in InsideBlock => lock = t
        /\ \A t, u \in Threads :
              (pc[t] \in InsideBlock /\ pc[u] \in InsideBlock) => t = u
      ]_vars

\* C34 witness: one thread is inside its prune, having moved an entry, while
\* the other, its commit done, waits for the lock to save.
C34_Witness ==
    \E t, u \in Threads :
        /\ pc[t] = "prune_cat" /\ lock = t /\ pruned[t] > 0
        /\ pc[u] = "save_lock" /\ saveno[u] = 1

\* C35: the deduplication looks at the active entries only: a candidate
\* whose normalized content is that of no active entry and of no earlier
\* candidate of its batch is kept, also when an archived entry has that
\* normalized content, and is committed as an active entry under an id that
\* no entry of its category, active or archived, has.
C35_ArchiveIsNotConsulted ==
    [][ \A t \in Threads :
          /\ (pc[t] = "dedup" /\ pc'[t] \in { "now", "done" })
                => LET kept == IF pc'[t] = "now" THEN entries'[t] ELSE << >> IN
                   \A i \in DOMAIN entries[t] :
                      LET k == Normalize(entries[t][i].content) IN
                      ( /\ \A e \in Range(ActiveEntries(memory)) : Normalize(e.content) # k
                        /\ \A j \in 1..(i - 1) : Normalize(entries[t][j].content) # k )
                        => entries[t][i] \in Range(kept)
          /\ (pc[t] = "commit" /\ ci'[t] = ci[t] + 1)
                => LET cat == entries[t][ci'[t]].category
                       es == EntriesOf(memory', cat)
                   IN  /\ es[Len(es)].content = entries[t][ci'[t]].content
                       /\ es[Len(es)].id \notin Range(IdsOf(memory, cat))
      ]_vars

\* C35 witness: an active entry has the normalized content of an entry of
\* its category that was archived before it was committed, and another id.
C35_Witness ==
    \E c \in CatSet :
        \E a \in Range(ArchivedOf(memory, c)), e \in Range(EntriesOf(memory, c)) :
            /\ Normalize(a.content) = Normalize(e.content)
            /\ e.created >= a.archived_on
            /\ e.id # a.id

\* where a thread is about to take self._lock
AtAcquire == { "ctx_ref", "dedup", "commit_lock", "save_lock", "prune_lock" }

C37_QuietStoreIsOnFile ==
    (\A t \in Threads : pc[t] \in { "idle", "done", "raised" })
        => IF TotalStored(memory) = 0 THEN disk = NoFile /\ memory = boot.memory
           ELSE disk = FileOf(memory)

\* C37 witness: no call is under way, both threads have committed an entry,
\* one of the two entries has been archived, and the file holds the Store.
C37_Witness ==
    /\ \A t \in Threads : pc[t] = "idle"
    /\ disk = FileOf(memory)
    /\ Len(ArchiveOf(memory)) = 1 /\ TotalActive(memory) = 1
    /\ \E a \in Range(ArchiveOf(memory)), e \in Range(ActiveEntries(memory)) :
         a.source_agent # e.source_agent

\* C38: when the call of the extraction service raises or times out,
\* extract_and_store logs one record for the failure, and its level is
\* warning.
C38_OneWarningForFailedCall ==
    \A t \in Threads :
        (op[t] = "extract" /\ reply[t] \in { "raise", "timeout" })
          => failure_log(reply[t]) = << "warn" >>

====
